---- MODULE Spec2Model ----
(***************************************************************************)
(* State-machine model of the leaderboard tracker:                         *)
(*   src/fetch2.js  the ingestion run (fetchData): one Sync record, then    *)
(*                  one XBLTotal row per scraped leaderboard entry;         *)
(*   src/api2.js    the query server: the closest-time lookup               *)
(*                  (/api2/xbltotal/:date), the chart                       *)
(*                  (/api2/xbltotal/chart), the list (/api2/xbltotal) and   *)
(*                  the existence probes tableExists / columnExists.        *)
(*                                                                         *)
(* Representation.                                                         *)
(*   A timestamp string is the tuple of its fields: <<d>> is a date,        *)
(*   <<d,h>> date+hour, <<d,h,m>> date+hour+minute, <<d,h,m,s>> the full    *)
(*   "YYYY-MM-DD HH:MM:SS"; d counts days.  A field JUNK stands for text    *)
(*   that is no digit group.  substring(0,13) keeps the first two fields.   *)
(*   An entity name is the tuple of its character codes (32 is the space).  *)
(*   SQL NULL is NULLSTR in a text column and NULLINT in a numeric one.     *)
(*   A sync_id (a uuid in the code) is a fresh positive integer; the empty  *)
(*   string bound in its place is EMPTYID.                                  *)
(*   Only the columns the queries read are kept: id, name, kudos,           *)
(*   folder_date, sync_id (field4, field10, field11, field13 in the         *)
(*   generic tables).                                                       *)
(***************************************************************************)
EXTENDS Integers, Sequences, FiniteSets, TLC

\* ------------------------------------------------------------------ bounds
MaxRuns == 1
MaxTicks == 1
MaxRows == 3
NumEntities == 11

\* --------------------------------------------------------------- constants
NULLINT == -1
NULLSTR == <<-1>>
EMPTYID == 0
JUNK == -2
TopLimit == 10
NoonHour == 12

Min(a, b) == IF a <= b THEN a ELSE b
Range(s) == {s[i] : i \in DOMAIN s}

RECURSIVE Flatten(_)
Flatten(ss) == IF ss = <<>> THEN <<>> ELSE Head(ss) \o Flatten(Tail(ss))

\* ------------------------------------------------------- SQLite date/time
\* datetime('now'): the clock (seconds) formatted "YYYY-MM-DD HH:MM:SS".
DateTimeNow(n) ==
    <<n \div 86400, (n % 86400) \div 3600, (n % 3600) \div 60, n % 60>>

\* new Date().toISOString(): the same instant, in a format ordered like it.
ToISOString(n) == DateTimeNow(n)

\* strftime('%s', x): seconds since the epoch, NULL when x is no time string.
\* SQLite reads "YYYY-MM-DD", "YYYY-MM-DD HH:MM" and "YYYY-MM-DD HH:MM:SS";
\* "YYYY-MM-DD HH" alone is not a time string.
StrftimeS(x) ==
    IF x = NULLSTR \/ (\E i \in DOMAIN x : x[i] < 0) THEN NULLINT
    ELSE IF Len(x) = 4 THEN x[1] * 86400 + x[2] * 3600 + x[3] * 60 + x[4]
    ELSE IF Len(x) = 3 THEN x[1] * 86400 + x[2] * 3600 + x[3] * 60
    ELSE IF Len(x) = 1 THEN x[1] * 86400
    ELSE NULLINT

\* ABS(strftime('%s', a) - strftime('%s', b)); NULL if either side is NULL.
\* NULLINT is below every difference, as NULL sorts first in ORDER BY ... ASC.
TimeDiff(a, b) ==
    IF StrftimeS(a) = NULLINT \/ StrftimeS(b) = NULLINT THEN NULLINT
    ELSE IF StrftimeS(a) >= StrftimeS(b) THEN StrftimeS(a) - StrftimeS(b)
    ELSE StrftimeS(b) - StrftimeS(a)

\* DATE(x): the calendar day of a time string.
DateOf(x) == IF StrftimeS(x) = NULLINT THEN NULLSTR ELSE <<x[1]>>

\* value LIKE prefix || '%' (the prefixes of the model hold no wildcard).
Like(value, prefix) ==
    /\ value # NULLSTR
    /\ Len(value) >= Len(prefix)
    /\ SubSeq(value, 1, Len(prefix)) = prefix

\* s.substring(0, 13): "YYYY-MM-DD HH", the date and hour fields.
Substring13(s) == SubSeq(s, 1, Min(2, Len(s)))

\* Text comparison (BINARY collation, memcmp): lexicographic on the codes.
LexLess(a, b) ==
    \E k \in 1..Len(b) :
        /\ Len(a) >= k - 1
        /\ \A j \in 1..(k - 1) : a[j] = b[j]
        /\ (Len(a) = k - 1 \/ a[k] < b[k])

\* ------------------------------------------------------------ identifiers
TableNames == <<"XBLTotal", "XBLTotal1", "XBLTotal2", "XBLTotal3">>

\* The characters of the identifiers and of the probe arguments of the model.
Chars(s) ==
    CASE s = "XBLTotal" -> <<"X", "B", "L", "T", "o", "t", "a", "l">>
      [] s = "XBLTotal1" -> <<"X", "B", "L", "T", "o", "t", "a", "l", "1">>
      [] s = "XBLTotal2" -> <<"X", "B", "L", "T", "o", "t", "a", "l", "2">>
      [] s = "XBLTotal3" -> <<"X", "B", "L", "T", "o", "t", "a", "l", "3">>
      [] s = "Sync" -> <<"S", "y", "n", "c">>
      [] s = "name" -> <<"n", "a", "m", "e">>
      [] s = "kudos" -> <<"k", "u", "d", "o", "s">>
      [] s = "folder_date" -> <<"f", "o", "l", "d", "e", "r", "_", "d", "a", "t", "e">>
      [] s = "data_date" -> <<"d", "a", "t", "a", "_", "d", "a", "t", "e">>
      [] s = "sync_id" -> <<"s", "y", "n", "c", "_", "i", "d">>
      [] s = "field4" -> <<"f", "i", "e", "l", "d", "4">>
      [] s = "field10" -> <<"f", "i", "e", "l", "d", "1", "0">>
      [] s = "field11" -> <<"f", "i", "e", "l", "d", "1", "1">>
      [] s = "field13" -> <<"f", "i", "e", "l", "d", "1", "3">>
      [] s = "x;y" -> <<"x", ";", "y">>
      [] s = "x y" -> <<"x", " ", "y">>
      [] s = "XBLTotal;" -> <<"X", "B", "L", "T", "o", "t", "a", "l", ";">>
      [] s = "name " -> <<"n", "a", "m", "e", " ">>
      [] s = "" -> <<>>

\* [a-zA-Z0-9_]
AllowedChars ==
    {"a", "b", "c", "d", "e", "f", "g", "h", "i", "j", "k", "l", "m",
     "n", "o", "p", "q", "r", "s", "t", "u", "v", "w", "x", "y", "z",
     "A", "B", "C", "D", "E", "F", "G", "H", "I", "J", "K", "L", "M",
     "N", "O", "P", "Q", "R", "S", "T", "U", "V", "W", "X", "Y", "Z",
     "0", "1", "2", "3", "4", "5", "6", "7", "8", "9", "_"}

\* /^[a-zA-Z0-9_]+$/.test(s)
AllowListed(s) ==
    /\ Len(Chars(s)) > 0
    /\ \A i \in 1..Len(Chars(s)) : Chars(s)[i] \in AllowedChars

\* getColumnName(tableName, logicalColumnName)
getColumnName(tableName, logicalColumnName) ==
    IF tableName \in {"XBLTotal1", "XBLTotal2", "XBLTotal3"}
    THEN CASE logicalColumnName = "name" -> "field4"
           [] logicalColumnName = "kudos" -> "field10"
           [] logicalColumnName = "folder_date" -> "field11"
           [] logicalColumnName = "sync_id" -> "field13"
           [] OTHER -> logicalColumnName
    ELSE logicalColumnName

\* ------------------------------------------------------------------ state
VARIABLES
    now,           \* the wall clock, in seconds
    ticks,         \* how often the clock has advanced (bounded by MaxTicks)
    schema,        \* sqlite_master / table_info: table -> its columns ({}: no table)
    tables,        \* table -> its rows, in rowid order
    Sync,          \* the Sync table, in rowid order
    fetch,         \* fetch2.js: the ingestion run in progress
    req,           \* api2.js: the request being served
    tableChecks,   \* chart handler local
    latestSyncId,  \* chart handler local
    top10Users,    \* chart handler local
    closestHour,   \* lookup handler local
    rows,          \* lookup handler local
    res,           \* the response sent
    faults,        \* the tables whose reads fail at present (runQuery rejects)
    sql            \* the request's query texts: the identifiers interpolated into
                   \* them (text) and those given to the allow-list test (tested)

vars == <<now, ticks, schema, tables, Sync, fetch, req, tableChecks,
          latestSyncId, top10Users, closestHour, rows, res, faults, sql>>
store == <<schema, tables, Sync>>
locals == <<tableChecks, latestSyncId, top10Users, closestHour, rows>>

\* ---------------------------------------------------- the database at start
NameOf(i) == <<64 + i>>
Padded(n) == n \o <<32>>

RealColumns == {"id", "name", "kudos", "folder_date", "sync_id"}
GenericColumns == {"field4", "field10", "field11", "field13"}

\* A database no run has written to: XBLTotal and Sync exist and are empty.
FreshDb ==
    [schema |-> [t \in Range(TableNames) |->
                    IF t = "XBLTotal" THEN RealColumns ELSE {}],
     tables |-> [t \in Range(TableNames) |-> <<>>],
     Sync |-> <<>>]

\* A database earlier runs have filled: one sync of NumEntities entities in
\* XBLTotal (day 1, 00:30:00); XBLTotal1 (all generic fields) holds a second
\* capture of one of them at the same instant and one of a name with a
\* trailing space; XBLTotal2 (no field13) holds a capture of the day before.
LegacyDb ==
    [schema |-> [t \in Range(TableNames) |->
                    CASE t = "XBLTotal" -> RealColumns
                      [] t = "XBLTotal1" -> GenericColumns
                      [] t = "XBLTotal2" -> GenericColumns \ {"field13"}
                      [] OTHER -> {}],
     tables |-> [t \in Range(TableNames) |->
                    CASE t = "XBLTotal" ->
                           [i \in 1..NumEntities |->
                               [id |-> i, name |-> NameOf(i), kudos |-> 10 * i,
                                folder_date |-> <<1, 0, 30, 0>>, sync_id |-> 1]]
                      [] t = "XBLTotal1" ->
                           << [field4 |-> NameOf(5), field10 |-> 75,
                               field11 |-> <<1, 0, 30, 0>>, field13 |-> 1],
                              [field4 |-> Padded(NameOf(NumEntities)),
                               field10 |-> 10 * NumEntities - 5,
                               field11 |-> <<1, 0, 31, 0>>, field13 |-> 1] >>
                      [] t = "XBLTotal2" ->
                           << [field4 |-> NameOf(3), field10 |-> 95,
                               field11 |-> <<0, 10, 0, 0>>] >>
                      [] OTHER -> <<>>],
     Sync |-> << [sync_id |-> 1, sync_date |-> <<1, 0, 29, 0>>] >>]

Databases == {FreshDb, LegacyDb}

\* The clock at start: day 1, 01:00:00.
StartClock == 86400 + 3600
\* How far the clock advances in one Tick: 50 minutes.
Deltas == {3000}

\* What the leaderboard page shows when it is scraped (name, kudos per row;
\* an empty name cell is scraped as ''; <<>>: no leaderboard or no row).
Pages ==
    { <<>>,
      << [name |-> NameOf(1), kudos |-> 100], [name |-> NameOf(2), kudos |-> 90] >>,
      << [name |-> NameOf(1), kudos |-> 50], [name |-> NameOf(1), kudos |-> 70] >>,
      << [name |-> <<>>, kudos |-> 0] >> }

IdleFetch == [pc |-> "idle", sync_id |-> EMPTYID, leaderboardData |-> <<>>, runs |-> 0]
IdleReq == [op |-> "none", pc |-> "done", arg |-> <<>>]
NoChecks == [t \in Range(TableNames) |->
                [exists |-> FALSE, hasName |-> FALSE, hasSyncId |-> FALSE,
                 hasFolderDate |-> FALSE, hasKudos |-> FALSE]]
NoRes == [status |-> 0, body |-> <<>>]
\* res.status(500).json({ error: err.message })
ServerError == [status |-> 500, body |-> <<>>]
NoSql == [text |-> {}, tested |-> {}]

Init ==
    /\ now = StartClock
    /\ ticks = 0
    /\ \E db \in Databases :
          /\ schema = db.schema
          /\ tables = db.tables
          /\ Sync = db.Sync
    /\ fetch = IdleFetch
    /\ req = IdleReq
    /\ tableChecks = NoChecks
    /\ latestSyncId = NULLINT
    /\ top10Users = <<>>
    /\ closestHour = NULLSTR
    /\ rows = <<>>
    /\ res = NoRes
    /\ faults = {}
    /\ sql = NoSql

\* A response that has been sent has left the server: the record of a served
\* request is kept until the clock, the database or the storage's condition
\* next changes.
Forget ==
    /\ req' = IF req.pc = "done" THEN IdleReq ELSE req
    /\ res' = IF req.pc = "done" THEN NoRes ELSE res
    /\ sql' = IF req.pc = "done" THEN NoSql ELSE sql
    /\ UNCHANGED locals

\* Lines 21-31: runQuery rejects when a table its query reads cannot be read.
Rejects(ts) == ts \cap faults # {}

\* ------------------------------------------------------------- the clock
Tick ==
    /\ ticks < MaxTicks
    /\ \E dt \in Deltas : now' = now + dt
    /\ ticks' = ticks + 1
    /\ Forget
    /\ UNCHANGED <<faults, store, fetch>>

\* ------------------------------------------------- fetch2.js: fetchData
\* uuidv4(): a token no Sync record holds yet.
uuidv4 == Len(Sync) + 1

\* A run that takes its sync_id and writes no Sync record (not the code's).
FetchStartNoRecord ==
    /\ fetch.pc = "idle"
    /\ fetch.runs < MaxRuns
    /\ Sync' = Sync
    /\ fetch' = [fetch EXCEPT !.pc = "scrape", !.sync_id = uuidv4, !.runs = @ + 1]
    /\ Forget
    /\ UNCHANGED <<faults, now, ticks, schema, tables>>

\* Lines 31-39: generate sync_id and sync_date, insert the Sync record.  Runs
\* are started one at a time (runAll is the whole script), and a run starts
\* later than the one before by more than the resolution of sync_date.  The
\* insert is queued on the connection before the browser is launched and
\* the page scraped, and the rows' inserts are queued after.
FetchStart ==
    /\ fetch.pc = "idle"
    /\ fetch.runs < MaxRuns
    /\ \A i \in DOMAIN Sync : LexLess(Sync[i].sync_date, ToISOString(now))
    /\ Sync' = Append(Sync, [sync_id |-> uuidv4, sync_date |-> ToISOString(now)])
    /\ fetch' = [fetch EXCEPT !.pc = "scrape", !.sync_id = uuidv4, !.runs = @ + 1]
    /\ Forget
    /\ UNCHANGED <<faults, now, ticks, schema, tables>>

\* Lines 41-103: open the page and read the leaderboard.  Leaderboard 1 not
\* offered, an exception, or no row read: fetchData returns with no row
\* written.  Otherwise sleep(1000) has passed before the rows are read.
FetchScrape ==
    /\ fetch.pc = "scrape"
    /\ \E page \in Pages :
          IF page = <<>>
          THEN /\ fetch' = [fetch EXCEPT !.pc = "idle", !.sync_id = EMPTYID]
               /\ now' = now
          ELSE /\ fetch' = [fetch EXCEPT !.pc = "insert", !.leaderboardData = page]
               /\ now' = now + 1
    /\ Forget
    /\ UNCHANGED <<faults, ticks, store>>

\* Lines 105-131: one stmt.run of the forEach; folder_date is datetime('now')
\* when the statement runs.  After the last one the run is over.
FetchInsertRow ==
    /\ fetch.pc = "insert"
    /\ LET entry == Head(fetch.leaderboardData)
           rest == Tail(fetch.leaderboardData)
       IN /\ tables' = [tables EXCEPT !["XBLTotal"] =
                           Append(@, [id |-> Len(@) + 1,
                                      name |-> entry.name, kudos |-> entry.kudos,
                                      folder_date |-> DateTimeNow(now),
                                      sync_id |-> fetch.sync_id])]
          /\ fetch' = IF rest = <<>>
                      THEN [fetch EXCEPT !.pc = "idle", !.sync_id = EMPTYID,
                                         !.leaderboardData = <<>>]
                      ELSE [fetch EXCEPT !.leaderboardData = rest]
    /\ Forget
    /\ UNCHANGED <<faults, now, ticks, schema, Sync>>

\* -------------------------------------- api2.js: getClosestFolderDateHour
\* /^\d{4}-\d{2}-\d{2}$/, /^... \d{2}$/, /^... \d{2}:\d{2}$/ on the fields.
AllDigits(x) == \A i \in DOMAIN x : x[i] >= 0

\* A padding that appends 00:00:00 to a date (not the code's).
PadTargetMidnight(decodedDate) ==
    IF Len(decodedDate) = 1 /\ AllDigits(decodedDate) THEN decodedDate \o <<0, 0, 0>>
    ELSE IF Len(decodedDate) = 2 /\ AllDigits(decodedDate) THEN decodedDate \o <<0, 0>>
    ELSE IF Len(decodedDate) = 3 /\ AllDigits(decodedDate) THEN decodedDate \o <<0>>
    ELSE decodedDate

\* Lines 52-66: the target with the default time appended.
PadTarget(decodedDate) ==
    IF Len(decodedDate) = 1 /\ AllDigits(decodedDate)
    THEN decodedDate \o <<NoonHour, 0, 0>>
    ELSE IF Len(decodedDate) = 2 /\ AllDigits(decodedDate)
    THEN decodedDate \o <<0, 0>>
    ELSE IF Len(decodedDate) = 3 /\ AllDigits(decodedDate)
    THEN decodedDate \o <<0>>
    ELSE decodedDate

\* Lines 74-82: SELECT folder_date FROM (SELECT folder_date FROM XBLTotal
\* WHERE folder_date LIKE ?) LIMIT 1: the first row of XBLTotal, in rowid
\* order, whose folder_date starts with the target hour; <<>> if none.
ExactHourRows(tbls, targetDateHour) ==
    LET fd == [i \in DOMAIN tbls["XBLTotal"] |-> tbls["XBLTotal"][i].folder_date]
        hit == SelectSeq(fd, LAMBDA v : Like(v, targetDateHour))
    IN IF hit = <<>> THEN <<>> ELSE <<[folder_date |-> Head(hit)]>>

\* Lines 86-96: SELECT folder_date, ABS(...) AS time_diff FROM (SELECT
\* folder_date FROM XBLTotal WHERE folder_date IS NOT NULL) ORDER BY time_diff
\* ASC LIMIT 1: the row of least time_diff, the first such in rowid order.
RECURSIVE LeastDiff(_, _, _)
\* The first value of fd whose time_diff no other value of fd is below.
LeastDiff(fd, targetDateTime, best) ==
    IF fd = <<>> THEN best
    ELSE LeastDiff(Tail(fd), targetDateTime,
                   IF TimeDiff(Head(fd), targetDateTime) < TimeDiff(best, targetDateTime)
                   THEN Head(fd) ELSE best)

ClosestRows(tbls, targetDateTime) ==
    LET fd == SelectSeq([i \in DOMAIN tbls["XBLTotal"] |->
                            tbls["XBLTotal"][i].folder_date],
                        LAMBDA v : v # NULLSTR)
    IN IF fd = <<>> THEN <<>>
       ELSE <<[folder_date |-> LeastDiff(Tail(fd), targetDateTime, Head(fd))]>>

\* Lines 48-107.  The route parameter reaches the handler percent-decoded;
\* decodeURIComponent leaves the targets of the model as they are.
\* The two queries read the table as one reader sees it: a row written
\* between them lies in the present hour and changes neither answer for the
\* targets of the model.
getClosestFolderDateHour(tbls, targetDate) ==
    LET decodedDate == targetDate
        targetDateTime == PadTarget(decodedDate)
        targetDateHour == Substring13(targetDateTime)
        exact == ExactHourRows(tbls, targetDateHour)
        found == IF exact = <<>> THEN ClosestRows(tbls, targetDateTime) ELSE exact
    IN IF found # <<>> THEN Substring13(found[1].folder_date) ELSE NULLSTR

\* ------------------------------------ api2.js: GET /api2/xbltotal/:date
\* new Date(s).getTime() of a capture instant; NULLINT stands for NaN.
JsTime(s) == StrftimeS(s)

\* A dedup in which the last row of a name wins (not the code's).
ReplacesAlways(row, existing) == TRUE

\* Lines 480-485: does the current row replace the one kept for its name?
Replaces(row, existing) ==
    /\ row.folder_date # NULLSTR
    /\ \/ existing.folder_date = NULLSTR
       \/ /\ JsTime(row.folder_date) # NULLINT
          /\ JsTime(existing.folder_date) # NULLINT
          /\ JsTime(row.folder_date) > JsTime(existing.folder_date)

\* Lines 469-489: the Map keyed by name, its values in insertion order.
RECURSIVE nameMap(_, _)
nameMap(rs, acc) ==
    IF rs = <<>> THEN acc
    ELSE LET row == Head(rs)
             at == {i \in DOMAIN acc : acc[i].name = row.name}
         IN IF row.name = NULLSTR \/ row.name = <<>>
            THEN nameMap(Tail(rs), acc)
            ELSE IF at = {}
            THEN nameMap(Tail(rs), Append(acc, row))
            ELSE LET i == CHOOSE k \in at : TRUE
                 IN IF Replaces(row, acc[i])
                    THEN nameMap(Tail(rs), [acc EXCEPT ![i] = row])
                    ELSE nameMap(Tail(rs), acc)

deduplicatedRows(rs) == nameMap(rs, <<>>)

Targets ==
    { <<1>>, <<0, 10>>, <<0, 11>>, <<1, 1>>, <<1, 1, 30>>, <<1, 1, 0, 0>>,
      <<JUNK>>, <<1, 1, JUNK>> }

\* Lines 433-441: the request arrives and the hour is resolved.
LookupResolve(dateParam) ==
    /\ req.pc = "done"
    /\ closestHour' = IF Rejects({"XBLTotal"}) THEN NULLSTR
                      ELSE getClosestFolderDateHour(tables, dateParam)
    /\ IF Rejects({"XBLTotal"})
       THEN /\ req' = [op |-> "lookup", pc |-> "done", arg |-> dateParam]
            /\ res' = ServerError
       ELSE IF closestHour' = NULLSTR
       THEN /\ req' = [op |-> "lookup", pc |-> "done", arg |-> dateParam]
            /\ res' = [status |-> 404, body |-> <<>>]
       ELSE /\ req' = [op |-> "lookup", pc |-> "query", arg |-> dateParam]
            /\ res' = NoRes
    /\ tableChecks' = NoChecks
    /\ latestSyncId' = NULLINT
    /\ top10Users' = <<>>
    /\ rows' = <<>>
    /\ sql' = NoSql
    /\ UNCHANGED <<faults, now, ticks, store, fetch>>

\* Lines 445-466: SELECT ... FROM XBLTotal t WHERE t.folder_date LIKE ?
LookupQuery ==
    /\ req.op = "lookup" /\ req.pc = "query"
    /\ IF Rejects({"XBLTotal"})
       THEN /\ rows' = <<>>
            /\ closestHour' = NULLSTR
            /\ res' = ServerError
            /\ req' = [req EXCEPT !.pc = "done"]
       ELSE /\ rows' = SelectSeq(tables["XBLTotal"],
                                 LAMBDA r : Like(r.folder_date, closestHour))
            /\ closestHour' = closestHour
            /\ res' = res
            /\ req' = [req EXCEPT !.pc = "respond"]
    /\ UNCHANGED <<faults, now, ticks, store, fetch, tableChecks, latestSyncId,
                   top10Users, sql>>

\* Lines 468-495: deduplicate by name and answer.
LookupRespond ==
    /\ req.op = "lookup" /\ req.pc = "respond"
    /\ res' = IF deduplicatedRows(rows) = <<>>
              THEN [status |-> 404, body |-> <<>>]
              ELSE [status |-> 200, body |-> deduplicatedRows(rows)]
    /\ req' = [req EXCEPT !.pc = "done"]
    /\ closestHour' = NULLSTR
    /\ rows' = <<>>
    /\ UNCHANGED <<faults, now, ticks, store, fetch, tableChecks, latestSyncId, top10Users, sql>>

\* ------------------------------------------ api2.js: existence probes
\* Lines 207-215: SELECT name FROM sqlite_master WHERE type='table' AND name=?
\* A read that fails is caught and answered false (lines 212-214).
tableExists(tableName) ==
    /\ tableName \notin faults
    /\ tableName \in DOMAIN schema
    /\ schema[tableName] # {}

\* Lines 218-231: PRAGMA table_info(<tableName>), after the allow-list test.
\* A read that fails is caught and answered false (lines 228-230).
columnExists(tableName, columnName) ==
    /\ AllowListed(tableName)
    /\ tableName \notin faults
    /\ tableName \in DOMAIN schema
    /\ columnName \in schema[tableName]

\* The identifiers columnExists puts into the text of the query it runs.
columnExistsText(tableName) == IF AllowListed(tableName) THEN {tableName} ELSE {}

\* ------------------------------------ api2.js: GET /api2/xbltotal/chart
\* The sync of the oldest record, by rowid (not the code's).
getLatestSyncIdFirst == IF Sync = <<>> THEN NULLINT ELSE Sync[1].sync_id

\* Lines 33-37: SELECT sync_id FROM Sync ORDER BY sync_date DESC LIMIT 1
getLatestSyncId ==
    IF Sync = <<>> THEN NULLINT
    ELSE LET i == CHOOSE k \in DOMAIN Sync :
                      /\ \A j \in DOMAIN Sync : ~LexLess(Sync[k].sync_date, Sync[j].sync_date)
                      /\ \A j \in 1..(k - 1) : Sync[j].sync_date # Sync[k].sync_date
         IN Sync[i].sync_id

\* Lines 275-292: the probes of the four tables.
ProbeTables ==
    [t \in Range(TableNames) |->
        IF tableExists(t)
        THEN [exists |-> TRUE,
              hasName |-> columnExists(t, getColumnName(t, "name")),
              hasSyncId |-> columnExists(t, getColumnName(t, "sync_id")),
              hasFolderDate |-> columnExists(t, getColumnName(t, "folder_date")),
              hasKudos |-> columnExists(t, getColumnName(t, "kudos"))]
        ELSE NoChecks[t]]

\* Line 303: the tables of the top-10 query.
InTop10(checks) ==
    checks.exists /\ checks.hasName /\ checks.hasSyncId /\ checks.hasKudos

\* A historical query that asks for sync_id as well (not the code's).
InDataNeedsSyncId(checks) ==
    /\ checks.exists /\ checks.hasName /\ checks.hasFolderDate /\ checks.hasKudos
    /\ checks.hasSyncId

\* Line 347: the tables of the historical query.
InData(checks) ==
    checks.exists /\ checks.hasName /\ checks.hasFolderDate /\ checks.hasKudos

\* Line 307: SELECT <name> as name, <kudos> as kudos FROM <t> WHERE <sync_id> = ?
top10Part(t, param) ==
    LET picked == SelectSeq(tables[t],
                            LAMBDA r : /\ r[getColumnName(t, "sync_id")] # NULLINT
                                        /\ r[getColumnName(t, "sync_id")] = param)
    IN [i \in DOMAIN picked |->
           [name |-> picked[i][getColumnName(t, "name")],
            kudos |-> picked[i][getColumnName(t, "kudos")]]]

\* Lines 302-311, 322: the parts joined by UNION ALL, in table order.
top10Union(checks, param) ==
    Flatten([k \in DOMAIN TableNames |->
                IF InTop10(checks[TableNames[k]])
                THEN top10Part(TableNames[k], param) ELSE <<>>])

\* ORDER BY of text values: NULL first, then memcmp order.
NameLess(a, b) ==
    \/ a = NULLSTR /\ b # NULLSTR
    \/ a # NULLSTR /\ b # NULLSTR /\ LexLess(a, b)

RECURSIVE SumKudos(_, _)
\* SUM(kudos) over the rows of one name (not the code's aggregate).
SumKudos(u, n) ==
    IF u = <<>> THEN 0
    ELSE (IF Head(u).name = n THEN Head(u).kudos ELSE 0) + SumKudos(Tail(u), n)

\* MAX(kudos) over the rows of one name.
MaxKudos(u, n) ==
    CHOOSE m \in {u[i].kudos : i \in {j \in DOMAIN u : u[j].name = n}} :
        \A i \in DOMAIN u : u[i].name = n => u[i].kudos <= m

\* GROUP BY name: one row per name, in the order of the names.
RECURSIVE OrderBy(_)
\* ORDER BY max_kudos DESC over the grouped rows: the greatest first, rows of
\* equal max_kudos in the order GROUP BY emits them.
OrderBy(groups) ==
    IF groups = {} THEN <<>>
    ELSE LET g == CHOOSE x \in groups :
                      \A y \in groups \ {x} :
                          \/ x.max_kudos > y.max_kudos
                          \/ x.max_kudos = y.max_kudos /\ NameLess(x.name, y.name)
         IN <<g>> \o OrderBy(groups \ {g})

\* LIMIT n
Limit(s, n) == SubSeq(s, 1, Min(n, Len(s)))

\* Lines 319-330: SELECT name, MAX(kudos) as max_kudos FROM (...) GROUP BY
\* name ORDER BY max_kudos DESC LIMIT 10
top10Rows(checks, param) ==
    LET u == top10Union(checks, param)
        groups == {[name |-> n, max_kudos |-> MaxKudos(u, n)] :
                      n \in {u[i].name : i \in DOMAIN u}}
    IN Limit(OrderBy(groups), TopLimit)

\* TRIM(x) and String.trim(): x without its leading and trailing spaces.
RECURSIVE TrimLeft(_)
TrimLeft(x) == IF x # <<>> /\ Head(x) = 32 THEN TrimLeft(Tail(x)) ELSE x
RECURSIVE TrimRight(_)
TrimRight(x) ==
    IF x # <<>> /\ x[Len(x)] = 32 THEN TrimRight(SubSeq(x, 1, Len(x) - 1)) ELSE x
\* TRIM(COALESCE(x, ''))
Trim(x) == IF x = NULLSTR THEN <<>> ELSE TrimLeft(TrimRight(x))

\* A part without the filter on the selected names (not the code's).
dataPartAnyName(t, users) ==
    LET picked == SelectSeq(tables[t],
                     LAMBDA r : /\ r[getColumnName(t, "folder_date")] # NULLSTR
                                /\ r[getColumnName(t, "name")] # NULLSTR
                                /\ r[getColumnName(t, "name")] # <<>>)
    IN [i \in DOMAIN picked |->
           [folder_date |-> picked[i][getColumnName(t, "folder_date")],
            name |-> picked[i][getColumnName(t, "name")],
            kudos |-> picked[i][getColumnName(t, "kudos")]]]

\* Line 352: SELECT <folder_date> as folder_date, <name> as name, <kudos> as
\* kudos FROM <t> WHERE <folder_date> IS NOT NULL AND <name> IS NOT NULL AND
\* <name> != '' AND <name> IN (?, ...)
dataPart(t, users) ==
    LET picked == SelectSeq(tables[t],
                     LAMBDA r : /\ r[getColumnName(t, "folder_date")] # NULLSTR
                                /\ r[getColumnName(t, "name")] # NULLSTR
                                /\ r[getColumnName(t, "name")] # <<>>
                                /\ r[getColumnName(t, "name")] \in Range(users) \ {NULLSTR})
    IN [i \in DOMAIN picked |->
           [folder_date |-> picked[i][getColumnName(t, "folder_date")],
            name |-> picked[i][getColumnName(t, "name")],
            kudos |-> picked[i][getColumnName(t, "kudos")]]]

\* Lines 346-358, 376: the parts joined by UNION ALL, in table order.
dataUnion(checks, users) ==
    Flatten([k \in DOMAIN TableNames |->
                IF InData(checks[TableNames[k]])
                THEN dataPart(TableNames[k], users) ELSE <<>>])

\* ORDER BY date ASC, TRIM(name) ASC, rows of equal keys in the order read.
RowBefore(a, b) ==
    \/ LexLess(a.date, b.date)
    \/ a.date = b.date /\ LexLess(a.name, b.name)

RECURSIVE SortRows(_)
SortRows(s) ==
    IF s = <<>> THEN <<>>
    ELSE LET i == CHOOSE k \in DOMAIN s :
                      /\ \A j \in DOMAIN s : ~RowBefore(s[j], s[k])
                      /\ \A j \in 1..(k - 1) : RowBefore(s[k], s[j])
         IN <<s[i]>> \o SortRows(SubSeq(s, 1, i - 1) \o SubSeq(s, i + 1, Len(s)))

\* Lines 370-395: the rows of the union joined to the latest capture of
\* their (trimmed name, day): a row is kept when its folder_date is the
\* MAX(folder_date) of its group.
historyRows(checks, users) ==
    LET u == dataUnion(checks, users)
        kept == SelectSeq(u,
                   LAMBDA r : /\ Trim(r.name) # <<>>
                              /\ \A i \in DOMAIN u :
                                    (Trim(u[i].name) = Trim(r.name)
                                        /\ DateOf(u[i].folder_date) = DateOf(r.folder_date))
                                    => ~LexLess(r.folder_date, u[i].folder_date))
    IN SortRows([i \in DOMAIN kept |->
                    [date |-> DateOf(kept[i].folder_date),
                     name |-> Trim(kept[i].name),
                     kudos |-> kept[i].kudos]])

\* Lines 403-421: the rows organised by user; row.kudos || 0.
chartData(rs) ==
    LET users == {Trim(rs[i].name) : i \in DOMAIN rs} \ {<<>>}
    IN [userName \in users |->
           LET mine == SelectSeq(rs, LAMBDA r : Trim(r.name) = userName)
           IN [i \in DOMAIN mine |->
                  [date |-> mine[i].date,
                   kudos |-> IF mine[i].kudos = NULLINT THEN 0 ELSE mine[i].kudos]]]

\* {} as the mapping with no key.
EmptyChart == [userName \in {} |-> <<>>]

\* The identifiers the top-10 and historical queries interpolate.
chartText(checks) ==
    UNION {IF InTop10(checks[t])
           THEN {t, getColumnName(t, "name"), getColumnName(t, "kudos"),
                 getColumnName(t, "sync_id")}
           ELSE {} : t \in Range(TableNames)}

dataText(checks) ==
    UNION {IF InData(checks[t])
           THEN {t, getColumnName(t, "name"), getColumnName(t, "kudos"),
                 getColumnName(t, "folder_date")}
           ELSE {} : t \in Range(TableNames)}

\* Lines 266-294: the request arrives and the tables are probed.
ChartProbe ==
    /\ req.pc = "done"
    /\ req' = [op |-> "chart", pc |-> "sync", arg |-> <<>>]
    /\ tableChecks' = ProbeTables
    /\ sql' = [text |-> UNION {columnExistsText(t) :
                                  t \in {x \in Range(TableNames) : tableExists(x)}},
               tested |-> {x \in Range(TableNames) : tableExists(x)}]
    /\ res' = NoRes
    /\ latestSyncId' = NULLINT
    /\ top10Users' = <<>>
    /\ closestHour' = NULLSTR
    /\ rows' = <<>>
    /\ UNCHANGED <<faults, now, ticks, store, fetch>>

\* Line 298: const latestSyncId = await getLatestSyncId()
ChartLatestSync ==
    /\ req.op = "chart" /\ req.pc = "sync"
    /\ IF Rejects({"Sync"})
       THEN /\ latestSyncId' = NULLINT
            /\ tableChecks' = NoChecks
            /\ res' = ServerError
            /\ req' = [req EXCEPT !.pc = "done"]
       ELSE /\ latestSyncId' = getLatestSyncId
            /\ tableChecks' = tableChecks
            /\ res' = res
            /\ req' = [req EXCEPT !.pc = "top10"]
    /\ UNCHANGED <<faults, now, ticks, store, fetch, top10Users,
                   closestHour, rows, sql>>

\* Lines 299-338: the top 10 users of that sync; latestSyncId || ''.
ChartTop10 ==
    /\ req.op = "chart" /\ req.pc = "top10"
    /\ LET param == IF latestSyncId = NULLINT THEN EMPTYID ELSE latestSyncId
           found == top10Rows(tableChecks, param)
       IN IF Rejects({t \in Range(TableNames) : InTop10(tableChecks[t])})
          THEN /\ res' = ServerError
               /\ req' = [req EXCEPT !.pc = "done"]
               /\ top10Users' = <<>>
               /\ tableChecks' = NoChecks
               /\ latestSyncId' = NULLINT
          ELSE IF (\A t \in Range(TableNames) : ~InTop10(tableChecks[t]))
                     \/ found = <<>>
          THEN /\ res' = [status |-> 200, body |-> EmptyChart]
               /\ req' = [req EXCEPT !.pc = "done"]
               /\ top10Users' = <<>>
               /\ tableChecks' = NoChecks
               /\ latestSyncId' = NULLINT
          ELSE /\ res' = NoRes
               /\ req' = [req EXCEPT !.pc = "history"]
               /\ top10Users' = [i \in DOMAIN found |-> found[i].name]
               /\ tableChecks' = tableChecks
               /\ latestSyncId' = latestSyncId
    /\ sql' = [sql EXCEPT !.text = @ \cup chartText(tableChecks)]
    /\ UNCHANGED <<faults, now, ticks, store, fetch, closestHour, rows>>

\* Lines 341-424: the historical rows of those users, one point per day.
ChartHistory ==
    /\ req.op = "chart" /\ req.pc = "history"
    /\ res' = IF Rejects({t \in Range(TableNames) : InData(tableChecks[t])})
              THEN ServerError
              ELSE IF \A t \in Range(TableNames) : ~InData(tableChecks[t])
              THEN [status |-> 200, body |-> EmptyChart]
              ELSE [status |-> 200,
                    body |-> chartData(historyRows(tableChecks, top10Users))]
    /\ sql' = [sql EXCEPT !.text = @ \cup dataText(tableChecks)]
    /\ req' = [req EXCEPT !.pc = "done"]
    /\ tableChecks' = NoChecks
    /\ top10Users' = <<>>
    /\ latestSyncId' = NULLINT
    /\ UNCHANGED <<faults, now, ticks, store, fetch, closestHour, rows>>

\* ---------------------------------------- api2.js: GET /api2/xbltotal
\* Lines 40-45: SELECT * FROM <table> WHERE <column> IS NOT NULL ORDER BY
\* ABS(strftime('%s', <column>) - strftime('%s', ?)) ASC LIMIT 1
getClosestDate(table, column, targetDate) ==
    LET col == SelectSeq([i \in DOMAIN tables[table] |-> tables[table][i][column]],
                         LAMBDA v : v # NULLSTR)
    IN IF col = <<>> THEN NULLSTR ELSE LeastDiff(Tail(col), targetDate, Head(col))

\* The identifiers getClosestDate puts into the text of its query.
getClosestDateText(table, column) == {table, column}

\* The query strings of the model: sync_id, folder_date and all (name and
\* data_date are not given).
Queries ==
    { [sync_id |-> NULLINT, folder_date |-> NULLSTR, all |-> FALSE],
      [sync_id |-> NULLINT, folder_date |-> NULLSTR, all |-> TRUE],
      [sync_id |-> 1, folder_date |-> NULLSTR, all |-> FALSE],
      [sync_id |-> NULLINT, folder_date |-> <<1, 1, 0, 0>>, all |-> FALSE] }

\* Lines 110-187: the rows of XBLTotal of the given or of the latest sync,
\* kept when their folder_date is the one closest to the given date.
ListRequest(query) ==
    /\ req.pc = "done"
    /\ LET useLatestSync == /\ query.sync_id = NULLINT
                            /\ query.folder_date = NULLSTR
                            /\ ~query.all
           wanted == IF query.sync_id # NULLINT THEN query.sync_id
                     ELSE IF useLatestSync THEN getLatestSyncId
                     ELSE NULLINT
           found == IF wanted = NULLINT THEN tables["XBLTotal"]
                    ELSE SelectSeq(tables["XBLTotal"], LAMBDA r : r.sync_id = wanted)
           closest == getClosestDate("XBLTotal", "folder_date", query.folder_date)
           failed == Rejects(IF useLatestSync THEN {"Sync", "XBLTotal"}
                             ELSE {"XBLTotal"})
       IN /\ res' = IF failed THEN ServerError
                    ELSE [status |-> 200,
                          body |-> IF query.folder_date # NULLSTR /\ closest # NULLSTR
                                   THEN SelectSeq(found, LAMBDA r : r.folder_date = closest)
                                   ELSE found]
          /\ sql' = [text |-> IF query.folder_date # NULLSTR /\ ~failed
                               THEN getClosestDateText("XBLTotal", "folder_date")
                               ELSE {},
                     tested |-> {}]
    /\ req' = [op |-> "list", pc |-> "done", arg |-> query]
    /\ tableChecks' = NoChecks
    /\ latestSyncId' = NULLINT
    /\ top10Users' = <<>>
    /\ closestHour' = NULLSTR
    /\ rows' = <<>>
    /\ UNCHANGED <<faults, now, ticks, store, fetch>>

\* ------------------------------------------------- calls of the probes
ProbeTableNames == {"XBLTotal", "XBLTotal1", "XBLTotal3", "x;y", "x y", "XBLTotal;", ""}
ProbeColumnNames == {"name", "field4", "sync_id", "kudos", "name ", "x;y", "x y"}

\* tableExists(tableName) and columnExists(tableName, columnName), called
\* with arbitrary names.
ProbeCall(tableName, columnName) ==
    /\ req.pc = "done"
    /\ req' = [op |-> "probe", pc |-> "done",
               arg |-> [tableName |-> tableName, columnName |-> columnName]]
    /\ res' = [status |-> 200,
               body |-> [tableExists |-> tableExists(tableName),
                         columnExists |-> columnExists(tableName, columnName)]]
    /\ sql' = [text |-> columnExistsText(tableName), tested |-> {tableName}]
    /\ tableChecks' = NoChecks
    /\ latestSyncId' = NULLINT
    /\ top10Users' = <<>>
    /\ closestHour' = NULLSTR
    /\ rows' = <<>>
    /\ UNCHANGED <<faults, now, ticks, store, fetch>>

\* ------------------------------------------- rows handed to the dedup
DedupNames == {NULLSTR, <<>>, NameOf(1), NameOf(2)}
DedupDates == {NULLSTR, <<1, 1, 0, 5>>, <<1, 1, 0, 10>>, <<1, 1, 0, 20>>}

\* The lookup handler about to deduplicate a list of up to MaxRows rows.
InitDedupe ==
    /\ now = StartClock
    /\ ticks = 0
    /\ schema = FreshDb.schema
    /\ tables = FreshDb.tables
    /\ Sync = FreshDb.Sync
    /\ fetch = IdleFetch
    /\ req = [op |-> "lookup", pc |-> "respond", arg |-> <<1, 1>>]
    /\ tableChecks = NoChecks
    /\ latestSyncId = NULLINT
    /\ top10Users = <<>>
    /\ closestHour = <<1, 1>>
    /\ \E n \in 0..MaxRows :
          \E ns \in [1..n -> DedupNames] :
             \E ds \in [1..n -> DedupDates] :
                rows = [i \in 1..n |->
                           [id |-> i, name |-> ns[i], folder_date |-> ds[i]]]
    /\ res = NoRes
    /\ faults = {}
    /\ sql = NoSql

\* ---------------------------------------------------- storage failures
\* The sets of tables whose reads fail together.
FaultSets == {{}, {"XBLTotal1"}, {"Sync"}, {"XBLTotal"}}

\* The storage starts or stops failing (db.all calls back with an error).
Fault ==
    /\ \E f \in FaultSets \ {faults} : faults' = f
    /\ Forget
    /\ UNCHANGED <<now, ticks, store, fetch>>

StoreNext ==
    \/ Tick
    \/ FetchStart
    \/ FetchScrape
    \/ FetchInsertRow

LookupNext ==
    \/ \E dateParam \in Targets : LookupResolve(dateParam)
    \/ LookupQuery
    \/ LookupRespond

ChartNext ==
    \/ ChartProbe
    \/ ChartLatestSync
    \/ ChartTop10
    \/ ChartHistory

ListNext == \E query \in Queries : ListRequest(query)

ProbeNext ==
    \E tableName \in ProbeTableNames :
        \E columnName \in ProbeColumnNames : ProbeCall(tableName, columnName)

Next ==
    \/ StoreNext
    \/ LookupNext
    \/ ChartNext
    \/ ListNext

\* The whole program: ingestion runs and the server's requests, interleaved.
Spec == Init /\ [][Next]_vars
\* Ingestion and the closest-time lookup.
SpecLookup == Init /\ [][StoreNext \/ LookupNext]_vars
\* Ingestion and the chart.
SpecChart == Init /\ [][StoreNext \/ ChartNext]_vars
\* The deduplication of the lookup, on arbitrary rows.
SpecDedupe == InitDedupe /\ [][LookupRespond]_vars
\* The requests of the server on a storage whose reads may fail.
SpecFault == Init /\ [][Fault \/ LookupNext \/ ChartNext \/ ListNext]_vars
\* The requests that build query text, and the probes on arbitrary names,
\* on the database as found (the texts of the lookup's queries and of the
\* ingestion's statements are literals).
SpecProbe == Init /\ [][ChartNext \/ ListNext \/ ProbeNext]_vars

\* ================================================================ properties
\* What the statements below speak of, written from the statements and not
\* from the handlers: the pool of capture instants, the canonical instant of a
\* target, the rows of a sync, the winner of a name.

\* The three precisions: date, date+hour, date+hour+minute+second.
Recognized(t) == AllDigits(t) /\ Len(t) \in {1, 2, 4}

\* The target padded by hand: a date to 12:00:00, a date+hour to :00:00.
CanonicalInstant(t) ==
    IF Len(t) = 1 THEN <<t[1], 12, 0, 0>>
    ELSE IF Len(t) = 2 THEN <<t[1], t[2], 0, 0>>
    ELSE t

Seconds(x) == x[1] * 86400 + x[2] * 3600 + x[3] * 60 + x[4]
Distance(a, b) == IF Seconds(a) >= Seconds(b) THEN Seconds(a) - Seconds(b)
                  ELSE Seconds(b) - Seconds(a)
HourKey(x) == <<x[1], x[2]>>
TargetHour(t) == HourKey(CanonicalInstant(t))

\* The existing tables that record a capture instant, and the instants of one.
CaptureTables ==
    {t \in Range(TableNames) : getColumnName(t, "folder_date") \in schema[t]}
InstantsOf(t) ==
    {tables[t][i][getColumnName(t, "folder_date")] : i \in DOMAIN tables[t]}
       \ {NULLSTR}
\* The pool: the capture instants of every such table.
CaptureInstants == UNION {InstantsOf(t) : t \in CaptureTables}

\* The step in which the lookup resolves the hour of its target req'.arg.
ResolveStep == req.pc = "done" /\ req'.op = "lookup"
\* The step in which the lookup deduplicates its rows and answers.
RespondStep == req.op = "lookup" /\ req.pc = "respond" /\ req'.pc = "done"
\* The steps of the chart: latest sync read, top 10 selected, series built.
SyncStep == req.op = "chart" /\ req.pc = "sync" /\ req'.pc = "top10"
Top10Step == req.op = "chart" /\ req.pc = "top10" /\ req'.pc # "top10"
HistoryStep == req.op = "chart" /\ req.pc = "history" /\ req'.pc = "done"

\* C1: whenever some snapshot of the pool has its capture instant in the hour
\* of the (recognized) target, the resolver returns exactly that hour.
C1_PrefixPrecedence ==
    [][(/\ ResolveStep
        /\ Recognized(req'.arg)
        /\ \E x \in CaptureInstants : HourKey(x) = TargetHour(req'.arg))
       => closestHour' = TargetHour(req'.arg)]_vars

\* C2: for a target of each of the three precisions the resolver returns the
\* bucket it returns for the target padded by hand (date -> 12:00:00 of that
\* date, date+hour -> :00:00 of that hour).
C2_DefaultPadding ==
    [][(ResolveStep /\ Recognized(req'.arg))
       => closestHour' = getClosestFolderDateHour(tables, CanonicalInstant(req'.arg))]_vars

\* A date-only target resolved to an hour that only noon padding selects: the
\* rows of 00:30 and of 01:00:01 are in the store, and 01 is nearer to noon.
C2_Witness ==
    /\ req.op = "lookup" /\ req.pc = "query"
    /\ req.arg = <<1>>
    /\ closestHour = <<1, 1>>
    /\ \E i \in DOMAIN tables["XBLTotal"] :
          HourKey(tables["XBLTotal"][i].folder_date) = <<1, 0>>

\* C3: a target of none of the three precisions resolves no bucket, whatever
\* the store holds, and the lookup answers with no rows.
C3_MalformedFailClosed ==
    [][(ResolveStep /\ ~Recognized(req'.arg))
       => (closestHour' = NULLSTR /\ res'.status = 404 /\ res'.body = <<>>)]_vars

\* C4: when no snapshot of the pool lies in the target hour, the resolver
\* returns the hour of a snapshot nearest to the padded target; it returns
\* null only when the pool is empty, and the endpoint then answers 404.
C4_NearestFallback ==
    [][(/\ ResolveStep
        /\ Recognized(req'.arg)
        /\ \A x \in CaptureInstants : HourKey(x) # TargetHour(req'.arg))
       => IF CaptureInstants = {}
          THEN closestHour' = NULLSTR /\ res'.status = 404
          ELSE \E x \in CaptureInstants :
                  /\ closestHour' = HourKey(x)
                  /\ \A y \in CaptureInstants :
                        Distance(x, CanonicalInstant(req'.arg))
                           <= Distance(y, CanonicalInstant(req'.arg))]_vars

\* C5: snapshots held by a table other than the primary one count: when the
\* only snapshots in the target hour are theirs the resolver returns that
\* hour, and the rows of the resolved hour held by such a table are returned
\* by the lookup.
C5_PoolOverAllTables ==
    [][/\ (/\ ResolveStep
           /\ Recognized(req'.arg)
           /\ \A x \in InstantsOf("XBLTotal") : HourKey(x) # TargetHour(req'.arg)
           /\ \E t \in CaptureTables \ {"XBLTotal"} :
                 \E x \in InstantsOf(t) : HourKey(x) = TargetHour(req'.arg))
          => closestHour' = TargetHour(req'.arg)
       /\ RespondStep
          => \A t \in CaptureTables \ {"XBLTotal"} :
                \A i \in DOMAIN tables[t] :
                   (/\ Like(tables[t][i][getColumnName(t, "folder_date")], closestHour)
                    /\ getColumnName(t, "name") \in schema[t]
                    /\ tables[t][i][getColumnName(t, "name")] \notin {NULLSTR, <<>>})
                   => \E k \in DOMAIN res'.body :
                         res'.body[k].name = tables[t][i][getColumnName(t, "name")]]_vars

\* The tables the top-N selection draws from: those with an entity key, a
\* metric and a sync_id; and their rows of sync sid, as (name, kudos) pairs.
QualifyingTables ==
    {t \in Range(TableNames) :
        {getColumnName(t, "name"), getColumnName(t, "kudos"),
         getColumnName(t, "sync_id")} \subseteq schema[t]}
RowsOfSync(sid) ==
    UNION {{[name |-> tables[t][i][getColumnName(t, "name")],
             kudos |-> tables[t][i][getColumnName(t, "kudos")]] :
               i \in {j \in DOMAIN tables[t] :
                         tables[t][j][getColumnName(t, "sync_id")] = sid}} :
           t \in QualifyingTables}
\* The greatest metric value of entity n among those rows.
RankValue(n, sid) ==
    CHOOSE m \in {r.kudos : r \in {q \in RowsOfSync(sid) : q.name = n}} :
        \A r \in RowsOfSync(sid) : r.name = n => r.kudos <= m

\* C6: the top-10 selection returns no entity twice and at most 10 entities,
\* ordered by the maximum (not the sum) of each entity's metric values over
\* its rows of the sync descending, and no entity left out outranks one
\* returned.
C6_TopN ==
    [][Top10Step
       => /\ Len(top10Users') <= 10
          /\ \A i, j \in DOMAIN top10Users' :
                i < j => /\ top10Users'[i] # top10Users'[j]
                         /\ RankValue(top10Users'[i], latestSyncId)
                               >= RankValue(top10Users'[j], latestSyncId)
          /\ \A r \in RowsOfSync(latestSyncId) :
                r.name \notin Range(top10Users')
                   => /\ Len(top10Users') = 10
                      /\ \A i \in DOMAIN top10Users' :
                            RankValue(top10Users'[i], latestSyncId) >= r.kudos]_vars

\* Ten entities selected out of more, among them the one that two qualifying
\* tables hold under the sync (metric values 50 and 75).
C6_Witness ==
    /\ req.op = "chart" /\ req.pc = "history"
    /\ Len(top10Users) = 10
    /\ NameOf(5) \in Range(top10Users)
    /\ Cardinality({r \in RowsOfSync(latestSyncId) : r.name = NameOf(5)}) = 2
    /\ \E r \in RowsOfSync(latestSyncId) : r.name \notin Range(top10Users)

\* C7: the sync the selection is scoped to is the one of the Sync record of
\* greatest sync_date; every entity returned has a row of that sync in a
\* qualifying table; when that sync has no such row (or no table qualifies)
\* the answer is the empty result with status 200.
C7_LatestSyncScope ==
    [][/\ SyncStep
          => IF Sync = <<>> THEN latestSyncId' = NULLINT
             ELSE \E i \in DOMAIN Sync :
                     /\ latestSyncId' = Sync[i].sync_id
                     /\ \A j \in DOMAIN Sync :
                           Seconds(Sync[j].sync_date) <= Seconds(Sync[i].sync_date)
       /\ Top10Step
          => /\ \A i \in DOMAIN top10Users' :
                   \E r \in RowsOfSync(latestSyncId) : r.name = top10Users'[i]
             /\ RowsOfSync(latestSyncId) = {}
                   => (/\ top10Users' = <<>>
                       /\ res'.status = 200
                       /\ res'.body = EmptyChart)]_vars

\* After a second run has written its rows, the selection holds the entities
\* of that run only, though the first sync's rows have greater metric values.
C7_Witness ==
    /\ req.op = "chart" /\ req.pc = "history"
    /\ Len(Sync) = 2
    /\ latestSyncId = Sync[2].sync_id
    /\ top10Users = <<NameOf(1), NameOf(2)>>
    /\ \E i \in DOMAIN tables["XBLTotal"] :
          /\ tables["XBLTotal"][i].sync_id = Sync[1].sync_id
          /\ tables["XBLTotal"][i].kudos > 100

\* The tables the daily series draws from, and the rows of the selected
\* entities in them that have a key and a capture instant, as (trimmed
\* name, capture instant, kudos).
SeriesTables ==
    {t \in Range(TableNames) :
        {getColumnName(t, "name"), getColumnName(t, "kudos"),
         getColumnName(t, "folder_date")} \subseteq schema[t]}
SeriesRows(users) ==
    UNION {{[name |-> Trim(tables[t][i][getColumnName(t, "name")]),
             at |-> tables[t][i][getColumnName(t, "folder_date")],
             kudos |-> tables[t][i][getColumnName(t, "kudos")]] :
               i \in {j \in DOMAIN tables[t] :
                         /\ tables[t][j][getColumnName(t, "name")] \in Range(users)
                         /\ Trim(tables[t][j][getColumnName(t, "name")]) # <<>>
                         /\ tables[t][j][getColumnName(t, "folder_date")] # NULLSTR}} :
           t \in SeriesTables}

\* C8: for every selected entity and every day on which it has a row, the
\* chart holds exactly one point of that entity and day, and its value is
\* the metric of a row of the greatest capture instant of that day.
C8_OnePointPerDay ==
    [][HistoryStep
       => \A r \in SeriesRows(top10Users) :
             /\ r.name \in DOMAIN res'.body
             /\ Cardinality({k \in DOMAIN res'.body[r.name] :
                                res'.body[r.name][k].date = <<r.at[1]>>}) = 1
             /\ \A k \in DOMAIN res'.body[r.name] :
                   res'.body[r.name][k].date = <<r.at[1]>>
                      => \E q \in SeriesRows(top10Users) :
                            /\ q.name = r.name /\ q.at[1] = r.at[1]
                            /\ q.kudos = res'.body[r.name][k].kudos
                            /\ \A p \in SeriesRows(top10Users) :
                                  (p.name = q.name /\ p.at[1] = q.at[1])
                                     => Seconds(p.at) <= Seconds(q.at)]_vars

\* The capture instant of a row, an absent one below every instant.
InstantOf(r) == IF r.folder_date = NULLSTR THEN -1 ELSE Seconds(r.folder_date)
\* The rows that have an entity key.
Keyed == {i \in DOMAIN rows : rows[i].name \notin {NULLSTR, <<>>}}
\* The row kept for the key of row i: the first of the most recent instant.
Winner(i) ==
    CHOOSE w \in Keyed :
        /\ rows[w].name = rows[i].name
        /\ \A j \in Keyed : rows[j].name = rows[i].name
              => /\ InstantOf(rows[j]) <= InstantOf(rows[w])
                 /\ (InstantOf(rows[j]) = InstantOf(rows[w]) => w <= j)
\* Where the key of row i is first met.
FirstSeen(i) ==
    CHOOSE f \in Keyed : rows[f].name = rows[i].name
                            /\ \A j \in Keyed : rows[j].name = rows[i].name => f <= j

\* C9: the lookup returns, for every entity key among the rows fetched, the
\* one row of the most recent capture instant (the first met when instants
\* tie or are absent), in the order the keys are first met, and nothing
\* else; rows with a null or empty key are dropped; no key at all is 404.
C9_Dedup ==
    [][RespondStep
       => /\ Len(res'.body) = Cardinality({rows[i].name : i \in Keyed})
          /\ \A i \in Keyed :
                \E k \in DOMAIN res'.body : res'.body[k] = rows[Winner(i)]
          /\ \A k, l \in DOMAIN res'.body :
                k < l => \E i, j \in Keyed :
                            /\ res'.body[k] = rows[Winner(i)]
                            /\ res'.body[l] = rows[Winner(j)]
                            /\ FirstSeen(i) < FirstSeen(j)
          /\ res'.status = IF Keyed = {} THEN 404 ELSE 200]_vars

\* [{A, t:10}, {A, t:20}, {B, t:5}] has yielded [{A, t:20}, {B, t:5}].
C9_Witness ==
    /\ req.op = "lookup" /\ req.pc = "done"
    /\ res.status = 200
    /\ res.body = << [id |-> 2, name |-> NameOf(1), folder_date |-> <<1, 1, 0, 20>>],
                     [id |-> 3, name |-> NameOf(2), folder_date |-> <<1, 1, 0, 5>>] >>

\* C10: a probe given a name with a character outside [a-zA-Z0-9_] answers
\* false and puts that name into no query text, and every identifier that
\* is interpolated into a query text has passed the allow-list test.
C10_AllowListing ==
    /\ req.op = "probe"
          => /\ ~AllowListed(req.arg.tableName)
                   => /\ ~res.body.tableExists
                      /\ ~res.body.columnExists
                      /\ req.arg.tableName \notin sql.text
             /\ ~AllowListed(req.arg.columnName)
                   => /\ ~res.body.columnExists
                      /\ req.arg.columnName \notin sql.text
    /\ \A id \in sql.text : id \in sql.tested /\ AllowListed(id)

\* The step in which the chart request arrives and probes the four tables,
\* and the steps in which the list and the lookup read the store.
ProbeStep == req.pc = "done" /\ req'.op = "chart" /\ req'.pc = "sync"
ListStep == req.pc = "done" /\ req'.op = "list"
QueryStep == req.op = "lookup" /\ req.pc = "query" /\ req'.pc # "query"
\* The request has ended with the failure handed to the caller.
Surfaced == req'.pc = "done" /\ res'.status = 500

\* C11: whenever a read a request performs fails -- a probe of one of the
\* chart's tables, the read of the latest sync, a read of a table of the
\* top-10 or of the history query, a read of the list or of the lookup --
\* the request ends with the failure surfaced; it never goes on with the
\* table whose probe failed taken as absent.
C11_NoPartialResult ==
    [][/\ (ProbeStep /\ faults \cap Range(TableNames) # {}) => Surfaced
       /\ ((SyncStep \/ (req.op = "chart" /\ req.pc = "sync" /\ req'.pc = "done"))
              /\ "Sync" \in faults) => Surfaced
       /\ (req.op = "chart" /\ req.pc = "top10" /\ req'.pc # "top10"
              /\ faults \cap {t \in Range(TableNames) : InTop10(tableChecks[t])} # {})
             => Surfaced
       /\ (HistoryStep
              /\ faults \cap {t \in Range(TableNames) : InData(tableChecks[t])} # {})
             => Surfaced
       /\ ((ListStep \/ ResolveStep \/ QueryStep) /\ "XBLTotal" \in faults)
             => Surfaced]_vars

\* The sync_ids the Snapshot Rows of the store carry.
CarriedSyncIds ==
    UNION {{tables[t][i][getColumnName(t, "sync_id")] : i \in DOMAIN tables[t]} :
           t \in {u \in Range(TableNames) : getColumnName(u, "sync_id") \in schema[u]}}

\* C12: in every state every Snapshot Row carries the sync_id of a Sync
\* record that is present; a sync_id has one record; a step never changes
\* or removes a Sync record, and the rows it appends carry the sync_id of a
\* record written before that step.
C12_SyncPrecedesRows ==
    /\ [](/\ \A sid \in CarriedSyncIds :
                \E i \in DOMAIN Sync : Sync[i].sync_id = sid
          /\ \A i, j \in DOMAIN Sync : Sync[i].sync_id = Sync[j].sync_id => i = j)
    /\ [][/\ Len(Sync') >= Len(Sync)
          /\ \A i \in DOMAIN Sync : Sync'[i] = Sync[i]
          /\ \A t \in Range(TableNames) :
                /\ Len(tables'[t]) >= Len(tables[t])
                /\ \A i \in DOMAIN tables'[t] :
                      IF i \in DOMAIN tables[t] THEN tables'[t][i] = tables[t][i]
                      ELSE \E k \in DOMAIN Sync :
                              Sync[k].sync_id = tables'[t][i].sync_id]_vars

\* A run under way on a store an earlier run has filled: its record is the
\* second one, one of its rows is written and another is still to come.
C12_Witness ==
    /\ fetch.pc = "insert"
    /\ Len(Sync) = 2
    /\ Sync[2].sync_id = fetch.sync_id
    /\ \E i \in DOMAIN tables["XBLTotal"] :
          tables["XBLTotal"][i].sync_id = fetch.sync_id

\* C13: the top-10 query reads exactly the tables that have an entity
\* name, a metric and a sync_id, the history query exactly those that have
\* an entity name, a capture instant and a metric; so every row of a
\* selected entity in a table of the second kind -- with or without a
\* sync_id -- has its day in the chart, every entity selected has a row in
\* a table of the first kind, and a table left out causes no error.
C13_RequiredFields ==
    [][/\ Top10Step
          => /\ {t \in Range(TableNames) : InTop10(tableChecks[t])} = QualifyingTables
             /\ \A i \in DOMAIN top10Users' :
                   \E t \in QualifyingTables : \E k \in DOMAIN tables[t] :
                      tables[t][k][getColumnName(t, "name")] = top10Users'[i]
             /\ res'.status \in {0, 200}
       /\ HistoryStep
          => /\ {t \in Range(TableNames) : InData(tableChecks[t])} = SeriesTables
             /\ res'.status = 200
             /\ \A r \in SeriesRows(top10Users) :
                   /\ r.name \in DOMAIN res'.body
                   /\ \E k \in DOMAIN res'.body[r.name] :
                         res'.body[r.name][k].date = <<r.at[1]>>
             /\ \A n \in DOMAIN res'.body : \A k \in DOMAIN res'.body[n] :
                   \E r \in SeriesRows(top10Users) :
                      /\ r.name = n
                      /\ <<r.at[1]>> = res'.body[n][k].date
                      /\ r.kudos = res'.body[n][k].kudos]_vars

\* A chart that holds, for an entity of the latest sync, the point of a day
\* that only a table without sync_id records, while the selection was made
\* without that table.
C13_Witness ==
    /\ req.op = "chart" /\ req.pc = "done" /\ res.status = 200
    /\ "XBLTotal2" \in SeriesTables \ QualifyingTables
    /\ NameOf(3) \in DOMAIN res.body
    /\ \E k \in DOMAIN res.body[NameOf(3)] :
          res.body[NameOf(3)][k] = [date |-> <<0>>, kudos |-> 95]
    /\ \A i \in DOMAIN tables["XBLTotal"] :
          tables["XBLTotal"][i].folder_date[1] # 0

\* C14: whatever an ingestion run has written between the selection and
\* the history read of a chart request, the mapping returned has at most 10
\* keys, every key is the trimmed form of an entity of that request's
\* selection, and no key maps to an empty sequence.
C14_ChartBounded ==
    [][HistoryStep
       => /\ Cardinality(DOMAIN res'.body) <= 10
          /\ \A n \in DOMAIN res'.body :
                /\ \E i \in DOMAIN top10Users : n = Trim(top10Users[i])
                /\ Len(res'.body[n]) > 0]_vars

\* A chart answered after a run has written its Sync record and its rows,
\* on a selection made before that run started: its keys are entities of
\* the first sync (ten of them, two with one trimmed form), and the
\* entities of the run are none of them.
C14_Witness ==
    /\ req.op = "chart" /\ req.pc = "done" /\ res.status = 200
    /\ Cardinality(DOMAIN res.body) = 9
    /\ NameOf(NumEntities) \in DOMAIN res.body
    /\ Len(Sync) = 2
    /\ fetch.pc = "idle"
    /\ \E i \in DOMAIN tables["XBLTotal"] :
          tables["XBLTotal"][i].sync_id = Sync[2].sync_id
    /\ \A i \in DOMAIN tables["XBLTotal"] :
          tables["XBLTotal"][i].sync_id = Sync[2].sync_id
             => tables["XBLTotal"][i].name \notin DOMAIN res.body

====
